---- MODULE Spec2Model ----
(***************************************************************************)
(* A model of advanced-vector/vector.h: RawMemory<T>, the owner of one raw *)
(* block, and Vector<T>, the container built on it.                        *)
(*                                                                         *)
(* A block is a sequence of slots; a slot records whether an object of     *)
(* type T lives in it and the value its bytes hold.  The element type T is *)
(* an input: whether its move constructor is noexcept, whether it can be   *)
(* copied, and whether moving from an object changes it.  Every fallible   *)
(* step of an operation (an allocation, an element constructor, an element *)
(* assignment) can be the one that throws.                                 *)
(***************************************************************************)
EXTENDS Integers, Sequences, FiniteSets, TLC

\* ------------------------------------------------------------------ bounds
\* the most elements a container holds: alone, beside a second container,
\* under appends only, in the scenario of the specification's section 8
MaxSize == 3
PairMaxSize == 2
AppendMaxSize == 5
ScenarioMaxSize == 4
\* the largest capacity asked of a RawMemory used on its own
RawMaxCapacity == 2
\* the most elements of a container whose members are called outside their
\* preconditions
MisuseMaxSize == 2
\* the most elements of a container that is appended its own elements
AliasMaxSize == 3

\* ------------------------------------------------------- values and blocks
Values == {1, 2}
ScenarioValues == {1, 2, 3, 99}
\* the value a moved-from object holds when T's move changes its source
MovedFrom == -2
\* the value of T(), one of the values
DefaultValue == 1
\* the content of storage in which no object was constructed
Raw == -1
\* buffer_ = nullptr
Null == 0

Objs == {"a", "b"}
\* the RawMemory objects used on their own
RawObjs == {"r1", "r2", "r3"}
\* two containers and the new block of the call in progress
BlockIds == 1..3

VARIABLES
    T,      \* the element type's traits
    heap,   \* block id -> its slots (<<>>: not allocated)
    vec,    \* object -> [alive, buffer, capacity, size]
    last,   \* the last call: operation, arguments, outcome
    raw,    \* RawMemory object -> [alive, buffer, capacity]
    script  \* how many steps of the scenario the calls since Vector() match

vars == <<T, heap, vec, last, raw, script>>

Min(x, y) == IF x < y THEN x ELSE y
Max(x, y) == IF x < y THEN y ELSE x

\* ------------------------------------------------------------ element type
\* relocation is by move when the move constructor is noexcept or T cannot
\* be copied, and by copy otherwise
RelocateByMove == T.nothrowMove \/ ~T.copyable

\* the element types of the model: one like std::string, one like int, one
\* whose move constructor may throw, one that can only be moved and whose move
\* constructor may throw
\* mayThrow: whether T's constructors and assignments can throw at all
\* trivial:  whether ~T() does nothing, so that the bytes of a destroyed
\*           object can still be written and read as before
StringLike ==
    [nothrowMove |-> TRUE, copyable |-> TRUE, moveEmpties |-> TRUE,
     mayThrow |-> TRUE, trivial |-> FALSE]
IntLike ==
    [nothrowMove |-> TRUE, copyable |-> TRUE, moveEmpties |-> FALSE,
     mayThrow |-> FALSE, trivial |-> TRUE]
ThrowingMove ==
    [nothrowMove |-> FALSE, copyable |-> TRUE, moveEmpties |-> TRUE,
     mayThrow |-> TRUE, trivial |-> FALSE]
MoveOnly ==
    [nothrowMove |-> FALSE, copyable |-> FALSE, moveEmpties |-> TRUE,
     mayThrow |-> TRUE, trivial |-> FALSE]

ElemTypes == {StringLike, IntLike, ThrowingMove, MoveOnly}

\* ------------------------------------------------------------------- slots
LiveSlot(v) == [live |-> TRUE, val |-> v]
RawSlot == [live |-> FALSE, val |-> Raw]

\* ------------------------------------------------- the state of one call
\* heap, vec: the program state the call works on
\* nd:    the call's local RawMemory new_data
\* fuel:  the fallible step that throws, counted down (0: none throws)
\* exc:   an exception is propagating
\* stop:  <<heap, vec>> as the first failed assert found them: the state
\*        the process stops in when asserts are compiled in (<<>>: none)
\* ub:    the undefined behaviour the call ran into
\* cnt:   what the call did: constructions, destructions, assignments,
\*        allocations, releases
NoCount == [ctor |-> 0, dtor |-> 0, asg |-> 0, alloc |-> 0, free |-> 0]
NullMemory == [buffer |-> Null, capacity |-> 0]

Start(thr) ==
    [heap |-> heap, vec |-> vec, raw |-> raw, nd |-> NullMemory, fuel |-> thr,
     exc |-> FALSE, stop |-> <<>>, ub |-> {}, cnt |-> NoCount]

\* a step that can throw: it is the one that throws, or it is counted
Throws(m, can) == can /\ m.fuel = 1
Tick(m, can) == IF can /\ m.fuel > 0 THEN [m EXCEPT !.fuel = @ - 1] ELSE m
Throw(m) == [m EXCEPT !.exc = TRUE, !.fuel = 0]

\* ------------------------------------------------------------- RawMemory
FreeIds(h) == {b \in BlockIds : h[b] = <<>>}
NewId(h) == CHOOSE b \in FreeIds(h) : \A c \in FreeIds(h) : b <= c

\* RawMemory new_data(n): Allocate(n) is nullptr for n = 0, else a fresh block
\* of n raw slots; operator new may throw
Allocate(m, n) ==
    IF n = 0 THEN [m EXCEPT !.nd = NullMemory]
    ELSE IF Throws(m, TRUE) THEN Throw(m)
    ELSE LET b == NewId(m.heap) IN
         [Tick(m, TRUE) EXCEPT !.heap[b] = [i \in 1..n |-> RawSlot],
                         !.nd = [buffer |-> b, capacity |-> n],
                         !.cnt.alloc = @ + 1]

\* Deallocate(buf): operator delete; a null pointer is a no-op
Deallocate(m, b) ==
    IF b = Null THEN m
    ELSE IF m.heap[b] = <<>>
    THEN [m EXCEPT !.cnt.free = @ + 1, !.ub = @ \cup {"double_free"}]
    ELSE [m EXCEPT !.heap[b] = <<>>, !.cnt.free = @ + 1]

\* a RawMemory object that is not constructed
NoRaw == [alive |-> FALSE, buffer |-> Null, capacity |-> 0]

\* RawMemory(capacity): buffer_(Allocate(capacity)), capacity_(capacity)
RawCtor(m, r, n) ==
    LET m1 == Allocate(m, n) IN
    IF m1.exc THEN m1
    ELSE [m1 EXCEPT !.raw[r] = [alive |-> TRUE, buffer |-> m1.nd.buffer,
                                capacity |-> n],
                    !.nd = NullMemory]

\* RawMemory(RawMemory&& other): takes the block, leaves other null
RawMoveCtor(m, r, s) ==
    [m EXCEPT !.raw[r] = [alive |-> TRUE, buffer |-> m.raw[s].buffer,
                          capacity |-> m.raw[s].capacity],
              !.raw[s].buffer = Null,
              !.raw[s].capacity = 0]

\* operator=(RawMemory&& other): buffer_ is overwritten as it is, the block
\* it pointed to is not passed to Deallocate
RawMoveAssign(m, r, s) ==
    IF r = s THEN m
    ELSE [m EXCEPT !.raw[r].buffer = m.raw[s].buffer,
                   !.raw[s].buffer = Null,
                   !.raw[r].capacity = m.raw[s].capacity,
                   !.raw[s].capacity = 0]

\* RawMemory::Swap(other)
RawSwap(m, r, s) ==
    [m EXCEPT !.raw[r].buffer = m.raw[s].buffer,
              !.raw[s].buffer = m.raw[r].buffer,
              !.raw[r].capacity = m.raw[s].capacity,
              !.raw[s].capacity = m.raw[r].capacity]

\* ~RawMemory(): Deallocate(buffer_)
RawDtor(m, r) == [Deallocate(m, m.raw[r].buffer) EXCEPT !.raw[r] = NoRaw]

\* ~RawMemory of the local new_data, on every way out of its scope
DropLocal(m) == [Deallocate(m, m.nd.buffer) EXCEPT !.nd = NullMemory]

\* data_.Swap(new_data)
SwapWithLocal(m, o) ==
    [m EXCEPT !.vec[o].buffer = m.nd.buffer,
              !.vec[o].capacity = m.nd.capacity,
              !.nd = [buffer |-> m.vec[o].buffer,
                      capacity |-> m.vec[o].capacity]]

\* ------------------------------------------------------ element operations
\* whether b + i points to a slot of block b
InBlock(m, b, i) == b # Null /\ 0 <= i /\ i < Len(m.heap[b])

IsLive(m, b, i) == m.heap[b][i + 1].live
ValAt(m, b, i) == m.heap[b][i + 1].val

\* reading the object in slot i of block b
NoteRead(m, b, i) ==
    IF IsLive(m, b, i) THEN m ELSE [m EXCEPT !.ub = @ \cup {"read_dead"}]

\* new (b + i) T(...) with the value v, once the constructor has run
Construct(m, b, i, v) ==
    [m EXCEPT !.heap[b][i + 1] = LiveSlot(v), !.cnt.ctor = @ + 1]

\* Destroy(buf): buf->~T()
Destroy(m, b, i) ==
    IF ~InBlock(m, b, i)
    THEN [m EXCEPT !.cnt.dtor = @ + 1, !.ub = @ \cup {"out_of_block"}]
    ELSE IF IsLive(m, b, i)
    THEN [m EXCEPT !.heap[b][i + 1] = RawSlot, !.cnt.dtor = @ + 1]
    ELSE [m EXCEPT !.heap[b][i + 1] = RawSlot, !.cnt.dtor = @ + 1,
                   !.ub = @ \cup {"destroy_dead"}]

\* DestroyN(buf, n): Destroy(buf + i) for i = 0 .. n-1
RECURSIVE DestroyFrom(_, _, _, _, _)
DestroyFrom(m, b, first, n, i) ==
    IF i = n THEN m
    ELSE DestroyFrom(Destroy(m, b, first + i), b, first, n, i + 1)

DestroyN(m, b, first, n) == DestroyFrom(m, b, first, n, 0)

\* the source of a move, afterwards
MovedOut(m, b, i) ==
    IF T.moveEmpties THEN [m EXCEPT !.heap[b][i + 1].val = MovedFrom] ELSE m

\* x = v on the object in slot i: the assignment operator may throw; on
\* storage that holds no object it is undefined, and writes the bytes
AssignTo(m, b, i, v) ==
    IF Throws(m, T.mayThrow) THEN Throw(m)
    ELSE IF ~InBlock(m, b, i)
    THEN [Tick(m, T.mayThrow) EXCEPT !.cnt.asg = @ + 1,
                                     !.ub = @ \cup {"out_of_block"}]
    ELSE LET m1 == [Tick(m, T.mayThrow) EXCEPT !.heap[b][i + 1].val = v,
                                  !.cnt.asg = @ + 1]
         IN IF IsLive(m, b, i) THEN m1
            ELSE [m1 EXCEPT !.ub = @ \cup {"assign_dead"}]

\* new (db + di) T(sb[si]): the copy constructor may throw
CopyConstruct(m, db, di, sb, si) ==
    IF Throws(m, T.mayThrow) THEN Throw(m)
    ELSE Construct(NoteRead(Tick(m, T.mayThrow), sb, si), db, di, ValAt(m, sb, si))

\* new (db + di) T(std::move(sb[si])): throws only when T's move
\* constructor is not noexcept
MoveConstruct(m, db, di, sb, si) ==
    IF Throws(m, ~T.nothrowMove) THEN Throw(m)
    ELSE LET m1 == Construct(NoteRead(Tick(m, ~T.nothrowMove), sb, si),
                             db, di, ValAt(m, sb, si))
         IN MovedOut(m1, sb, si)

\* whether building a T from the call's argument can throw: by copy
\* ("copy"), by move ("move"), by some other constructor ("emplace")
ArgCanThrow(how) == T.mayThrow /\ ~(how = "move" /\ T.nothrowMove)

\* new (b + i) T(value), T(std::move(value)), T(args...) from the call's
\* argument
ConstructFromArg(m, b, i, v, how) ==
    IF Throws(m, ArgCanThrow(how)) THEN Throw(m)
    ELSE Construct(Tick(m, ArgCanThrow(how)), b, i, v)

\* std::uninitialized_copy_n(sb + si, n, db + di): when the j-th copy
\* throws, the j objects already built are destroyed
RECURSIVE UninitCopyFrom(_, _, _, _, _, _, _)
UninitCopyFrom(m, sb, si, n, db, di, j) ==
    IF j = n THEN m
    ELSE LET m1 == CopyConstruct(m, db, di + j, sb, si + j) IN
         IF m1.exc THEN DestroyN(m1, db, di, j)
         ELSE UninitCopyFrom(m1, sb, si, n, db, di, j + 1)

UninitializedCopyN(m, sb, si, n, db, di) ==
    UninitCopyFrom(m, sb, si, n, db, di, 0)

\* std::uninitialized_move_n(sb + si, n, db + di)
RECURSIVE UninitMoveFrom(_, _, _, _, _, _, _)
UninitMoveFrom(m, sb, si, n, db, di, j) ==
    IF j = n THEN m
    ELSE LET m1 == MoveConstruct(m, db, di + j, sb, si + j) IN
         IF m1.exc THEN DestroyN(m1, db, di, j)
         ELSE UninitMoveFrom(m1, sb, si, n, db, di, j + 1)

UninitializedMoveN(m, sb, si, n, db, di) ==
    UninitMoveFrom(m, sb, si, n, db, di, 0)

\* the relocation every growth path uses: move or copy, by T
RelocateN(m, sb, si, n, db, di) ==
    IF RelocateByMove THEN UninitializedMoveN(m, sb, si, n, db, di)
    ELSE UninitializedCopyN(m, sb, si, n, db, di)

\* x = std::move(y) between two slots of block b
MoveAssign(m, b, di, si) ==
    LET m1 == AssignTo(NoteRead(m, b, si), b, di, ValAt(m, b, si)) IN
    IF m1.exc THEN m1 ELSE MovedOut(m1, b, si)

\* std::uninitialized_value_construct_n(b + first, n): T() may throw, and the
\* objects already built are then destroyed
RECURSIVE UninitValueFrom(_, _, _, _, _)
UninitValueFrom(m, b, first, n, j) ==
    IF j = n THEN m
    ELSE IF Throws(m, T.mayThrow) THEN DestroyN(Throw(m), b, first, j)
    ELSE UninitValueFrom(Construct(Tick(m, T.mayThrow), b, first + j, DefaultValue),
                         b, first, n, j + 1)

UninitializedValueConstructN(m, b, first, n) == UninitValueFrom(m, b, first, n, 0)

\* std::move_backward(b + first, b + lst, b + dlast): from the back,
\* *(--dlast) = std::move(*(--lst)).  A range with first > lst is undefined:
\* the loop over lst - first elements does nothing (or the process faults)
RECURSIVE MoveBackward(_, _, _, _, _)
MoveBackward(m, b, first, lst, dlast) ==
    IF lst < first THEN [m EXCEPT !.ub = @ \cup {"bad_range"}]
    ELSE IF lst = first THEN m
    ELSE LET m1 == MoveAssign(m, b, dlast - 1, lst - 1) IN
         IF m1.exc THEN m1
         ELSE MoveBackward(m1, b, first, lst - 1, dlast - 1)

\* std::move(b + first, b + lst, b + dfirst): from the front,
\* *dfirst++ = std::move(*first++)
RECURSIVE MoveForward(_, _, _, _, _)
MoveForward(m, b, first, lst, dfirst) ==
    IF lst < first THEN [m EXCEPT !.ub = @ \cup {"bad_range"}]
    ELSE IF lst = first THEN m
    ELSE LET m1 == MoveAssign(m, b, dfirst, first) IN
         IF m1.exc THEN m1
         ELSE MoveForward(m1, b, first + 1, lst, dfirst + 1)

\* ------------------------------------------------------------------ Vector
NoVector == [alive |-> FALSE, buffer |-> Null, capacity |-> 0, size |-> 0]
EmptyVector == [alive |-> TRUE, buffer |-> Null, capacity |-> 0, size |-> 0]

Buf(m, o) == m.vec[o].buffer
Cap(m, o) == m.vec[o].capacity
Size(m, o) == m.vec[o].size

SetSize(m, o, n) == [m EXCEPT !.vec[o].size = n]

\* assert(condition) with a false condition
AssertFails(m, kind) ==
    [m EXCEPT !.ub = @ \cup {kind},
              !.stop = IF @ = <<>> THEN <<m.heap, m.vec>> ELSE @]

\* RawMemory::operator[](index): assert(index < capacity_)
CheckIndex(m, o, index) ==
    IF 0 <= index /\ index < Cap(m, o) THEN m
    ELSE AssertFails(m, "assert_index")

\* RawMemory::operator+(offset): assert(offset <= capacity_)
CheckOffset(m, o, offset) ==
    IF 0 <= offset /\ offset <= Cap(m, o) THEN m
    ELSE AssertFails(m, "assert_offset")

\* size_t arithmetic wraps; of its 64 bits the model keeps 16, enough to
\* tell a wrapped size from every size a container of the model has
SizeTModulus == 2 ^ 16
Decrement(n) == (n - 1) % SizeTModulus

\* a growth by one slot instead of a doubling
NewCapacityByOne(size) == size + 1

\* const size_t new_capacity = size_ == 0 ? 1 : size_ * 2
NewCapacity(size) == IF size = 0 THEN 1 ELSE size * 2

\* a Reserve that grows to at least twice the capacity
ReserveDoubles(m, o, n) ==
    IF n <= Cap(m, o) THEN m
    ELSE LET m1 == Allocate(m, Max(n, 2 * Cap(m, o))) IN
         IF m1.exc THEN m1
         ELSE LET m2 == RelocateN(m1, Buf(m, o), 0, Size(m, o), m1.nd.buffer, 0) IN
              IF m2.exc THEN DropLocal(m2)
              ELSE LET m3 == SwapWithLocal(m2, o) IN
                   DropLocal(DestroyN(m3, m3.nd.buffer, 0, m3.nd.capacity))

\* Reserve(new_capacity)
Reserve(m, o, n) ==
    IF n <= Cap(m, o) THEN m
    ELSE LET m1 == Allocate(m, n) IN
         IF m1.exc THEN m1
         ELSE LET m2 == RelocateN(m1, Buf(m, o), 0, Size(m, o), m1.nd.buffer, 0) IN
              IF m2.exc THEN DropLocal(m2)
              ELSE LET m3 == SwapWithLocal(m2, o) IN
                   DropLocal(DestroyN(m3, m3.nd.buffer, 0, m3.nd.capacity))

\* a Reallocate that commits the new block although the relocation threw
ReallocateCommitsEarly(m, o) ==
    LET m1 == RelocateN(m, Buf(m, o), 0, Size(m, o), m.nd.buffer, 0) IN
    IF m1.exc THEN SwapWithLocal(DestroyN(m1, m1.nd.buffer, Size(m, o), 1), o)
    ELSE LET m2 == SwapWithLocal(m1, o) IN
         DestroyN(m2, m2.nd.buffer, 0, m2.nd.capacity)

\* Reallocate(new_data): the elements go before the new one, built at size_
Reallocate(m, o) ==
    LET m1 == RelocateN(m, Buf(m, o), 0, Size(m, o), m.nd.buffer, 0) IN
    IF m1.exc THEN DestroyN(m1, m1.nd.buffer, Size(m, o), 1)
    ELSE LET m2 == SwapWithLocal(m1, o) IN
         DestroyN(m2, m2.nd.buffer, 0, m2.nd.capacity)

\* a Reallocate(new_data, pos_idx) whose second handler destroys the elements
\* before pos_idx and not the new one
ReallocateAtForgetsNewElement(m, o, pos) ==
    LET m1 == RelocateN(m, Buf(m, o), 0, pos, m.nd.buffer, 0) IN
    IF m1.exc THEN DestroyN(m1, m1.nd.buffer, pos, 1)
    ELSE LET m2 == RelocateN(m1, Buf(m, o), pos, Size(m, o) - pos,
                             m1.nd.buffer, pos + 1) IN
         IF m2.exc THEN DestroyN(m2, m2.nd.buffer, 0, pos)
         ELSE LET m3 == SwapWithLocal(m2, o) IN
              DestroyN(m3, m3.nd.buffer, 0, m3.nd.capacity)

\* Reallocate(new_data, pos_idx): the elements go around the new one, built
\* at pos_idx
ReallocateAt(m, o, pos) ==
    LET m1 == RelocateN(m, Buf(m, o), 0, pos, m.nd.buffer, 0) IN
    IF m1.exc THEN DestroyN(m1, m1.nd.buffer, pos, 1)
    ELSE LET m2 == RelocateN(m1, Buf(m, o), pos, Size(m, o) - pos,
                             m1.nd.buffer, pos + 1) IN
         IF m2.exc THEN DestroyN(m2, m2.nd.buffer, 0, pos + 1)
         ELSE LET m3 == SwapWithLocal(m2, o) IN
              DestroyN(m3, m3.nd.buffer, 0, m3.nd.capacity)

\* PushBack(const T&), PushBack(T&&), EmplaceBack(args...): how the new
\* element is built from the argument is all that differs
EmplaceBack(m, o, v, how) ==
    IF Size(m, o) = Cap(m, o)
    THEN LET m1 == Allocate(m, NewCapacity(Size(m, o))) IN
         IF m1.exc THEN m1
         ELSE LET m2 == ConstructFromArg(m1, m1.nd.buffer, Size(m, o), v, how) IN
              IF m2.exc THEN DropLocal(m2)
              ELSE LET m3 == Reallocate(m2, o) IN
                   IF m3.exc THEN DropLocal(m3)
                   ELSE SetSize(DropLocal(m3), o, Size(m, o) + 1)
    ELSE LET m1 == ConstructFromArg(m, Buf(m, o), Size(m, o), v, how) IN
         IF m1.exc THEN m1 ELSE SetSize(m1, o, Size(m, o) + 1)

\* new (db + di) T(value), T(std::move(value)), T(args...) when the argument
\* is a reference to the element in slot si of block sb: the element is read
\* when the constructor runs
ConstructFromElement(m, db, di, sb, si, how) ==
    IF how = "move" THEN MoveConstruct(m, db, di, sb, si)
    ELSE CopyConstruct(m, db, di, sb, si)

\* an append that relocates the elements before it builds the new one
EmplaceBackElementRelocatesFirst(m, o, i, how) ==
    IF Size(m, o) = Cap(m, o)
    THEN LET m1 == Allocate(m, NewCapacity(Size(m, o))) IN
         IF m1.exc THEN m1
         ELSE LET m2 == Reallocate(m1, o) IN
              IF m2.exc THEN DropLocal(m2)
              ELSE LET m3 == ConstructFromElement(m2, Buf(m2, o), Size(m, o),
                                                  m2.nd.buffer, i, how) IN
                   IF m3.exc THEN DropLocal(m3)
                   ELSE SetSize(DropLocal(m3), o, Size(m, o) + 1)
    ELSE LET m1 == ConstructFromElement(m, Buf(m, o), Size(m, o), Buf(m, o), i, how) IN
         IF m1.exc THEN m1 ELSE SetSize(m1, o, Size(m, o) + 1)

\* PushBack(v[i]), PushBack(std::move(v[i])), EmplaceBack(v[i]) on v itself
EmplaceBackElement(m, o, i, how) ==
    IF Size(m, o) = Cap(m, o)
    THEN LET m1 == Allocate(m, NewCapacity(Size(m, o))) IN
         IF m1.exc THEN m1
         ELSE LET m2 == ConstructFromElement(m1, m1.nd.buffer, Size(m, o),
                                             Buf(m, o), i, how) IN
              IF m2.exc THEN DropLocal(m2)
              ELSE LET m3 == Reallocate(m2, o) IN
                   IF m3.exc THEN DropLocal(m3)
                   ELSE SetSize(DropLocal(m3), o, Size(m, o) + 1)
    ELSE LET m1 == ConstructFromElement(m, Buf(m, o), Size(m, o), Buf(m, o), i, how) IN
         IF m1.exc THEN m1 ELSE SetSize(m1, o, Size(m, o) + 1)

\* PopBack()
PopBack(m, o) ==
    SetSize(Destroy(m, Buf(m, o), Size(m, o) - 1), o, Decrement(Size(m, o)))

\* T temp_value(value) / T temp_value(std::move(value)) / T temp_value(args...)
TempValue(m, how) ==
    IF Throws(m, ArgCanThrow(how)) THEN Throw(m)
    ELSE [Tick(m, ArgCanThrow(how)) EXCEPT !.cnt.ctor = @ + 1]

\* ~T of temp_value at the end of its scope
DropTemp(m) == [m EXCEPT !.cnt.dtor = @ + 1]

\* new (data_.GetAddress() + size_) T(std::move(data_[size_ - 1])): with
\* size_ = 0 the index is out of the block, the assert of operator[] fails,
\* and without it the bytes before the block are read
MoveLastUp(m, o) ==
    LET m1 == CheckIndex(m, o, Size(m, o) - 1) IN
    IF Size(m, o) = 0
    THEN IF Throws(m1, ~T.nothrowMove) THEN Throw(m1)
         ELSE Construct(Tick(m1, ~T.nothrowMove), Buf(m, o), 0, Raw)
    ELSE MoveConstruct(m1, Buf(m, o), Size(m, o), Buf(m, o), Size(m, o) - 1)

\* an insertion with spare capacity that does not shift the tail
InsertInPlaceNoShift(m, o, pos, v, how) ==
    LET m1 == TempValue(m, how) IN
    IF m1.exc THEN m1
    ELSE LET m2 == MoveLastUp(m1, o) IN
         IF m2.exc THEN DropTemp(m2)
         ELSE DropTemp(AssignTo(CheckIndex(m2, o, pos), Buf(m, o), pos, v))

\* the branch of Insert and Emplace with spare capacity: a temporary, the
\* last element moved up, the tail shifted, the temporary assigned
InsertInPlace(m, o, pos, v, how) ==
    LET m1 == TempValue(m, how) IN
    IF m1.exc THEN m1
    ELSE LET m2 == MoveLastUp(m1, o) IN
         IF m2.exc THEN DropTemp(m2)
         ELSE LET m3 == MoveBackward(m2, Buf(m, o), pos, Size(m, o) - 1, Size(m, o)) IN
              IF m3.exc THEN DropTemp(m3)
              ELSE LET m4 == AssignTo(CheckIndex(m3, o, pos), Buf(m, o), pos, v) IN
                   DropTemp(m4)

\* the branch of Insert and Emplace at capacity
InsertGrowing(m, o, pos, v, how) ==
    LET m1 == Allocate(m, NewCapacity(Size(m, o))) IN
    IF m1.exc THEN m1
    ELSE LET m2 == ConstructFromArg(m1, m1.nd.buffer, pos, v, how) IN
         IF m2.exc THEN DropLocal(m2)
         ELSE DropLocal(ReallocateAt(m2, o, pos))

\* Insert(pos, const T&), Insert(pos, T&&)
Insert(m, o, pos, v, how) ==
    LET m1 == IF Size(m, o) = Cap(m, o)
              THEN InsertGrowing(m, o, pos, v, how)
              ELSE InsertInPlace(m, o, pos, v, how)
    IN IF m1.exc THEN m1 ELSE SetSize(m1, o, Size(m, o) + 1)

\* Emplace(pos, args...)
Emplace(m, o, pos, v) ==
    LET m1 == IF Size(m, o) = Cap(m, o)
              THEN InsertGrowing(m, o, pos, v, "emplace")
              ELSE IF pos = Size(m, o)
                   THEN ConstructFromArg(m, Buf(m, o), pos, v, "emplace")
                   ELSE InsertInPlace(m, o, pos, v, "emplace")
    IN IF m1.exc THEN m1 ELSE SetSize(m1, o, Size(m, o) + 1)

\* Erase(pos)
Erase(m, o, pos) ==
    LET m1 == Destroy(m, Buf(m, o), pos)
        m2 == MoveForward(m1, Buf(m, o), pos + 1, Size(m, o), pos)
    IN IF m2.exc THEN m2 ELSE SetSize(m2, o, Decrement(Size(m, o)))

\* a Resize that shrinks by size_ = new_size alone
ResizeShrinksWithoutDestroy(m, o, n) ==
    IF Size(m, o) = n THEN m
    ELSE IF Size(m, o) < n
    THEN LET m1 == Reserve(m, o, n) IN
         IF m1.exc THEN m1
         ELSE LET m2 == UninitializedValueConstructN(m1, Buf(m1, o), Size(m, o),
                                                     n - Size(m, o)) IN
              IF m2.exc THEN m2 ELSE SetSize(m2, o, n)
    ELSE SetSize(m, o, n)

\* a Resize that grows without the final size_ = new_size
ResizeForgetsSize(m, o, n) ==
    IF Size(m, o) = n THEN m
    ELSE IF Size(m, o) < n
    THEN LET m1 == Reserve(m, o, n) IN
         IF m1.exc THEN m1
         ELSE UninitializedValueConstructN(m1, Buf(m1, o), Size(m, o), n - Size(m, o))
    ELSE SetSize(DestroyN(m, Buf(m, o), n, Size(m, o) - n), o, n)

\* Resize(new_size)
Resize(m, o, n) ==
    IF Size(m, o) = n THEN m
    ELSE IF Size(m, o) < n
    THEN LET m1 == Reserve(m, o, n) IN
         IF m1.exc THEN m1
         ELSE LET m2 == UninitializedValueConstructN(m1, Buf(m1, o), Size(m, o),
                                                     n - Size(m, o)) IN
              IF m2.exc THEN m2 ELSE SetSize(m2, o, n)
    ELSE SetSize(DestroyN(m, Buf(m, o), n, Size(m, o) - n), o, n)

\* operator[](index): assert(index < size_); return data_[index]
At(m, o, index) ==
    LET m1 == IF index < Size(m, o) THEN m ELSE AssertFails(m, "assert_size")
        m2 == CheckIndex(m1, o, index)
    IN IF InBlock(m2, Buf(m, o), index) THEN NoteRead(m2, Buf(m, o), index)
       ELSE [m2 EXCEPT !.ub = @ \cup {"out_of_block"}]

\* Vector(): data_ and size_ by their member initializers
DefaultCtor(m, o) == [m EXCEPT !.vec[o] = EmptyVector]

\* Vector(size): when T() throws, data_ is released and no object exists
SizeCtor(m, o, n) ==
    LET m1 == Allocate(m, n) IN
    IF m1.exc THEN m1
    ELSE LET m2 == UninitializedValueConstructN(m1, m1.nd.buffer, 0, n) IN
         IF m2.exc THEN DropLocal(m2)
         ELSE [m2 EXCEPT !.vec[o] = [alive |-> TRUE, buffer |-> m2.nd.buffer,
                                     capacity |-> m2.nd.capacity, size |-> n],
                         !.nd = NullMemory]

\* a copy that shares the block of the source
CopyCtorShallow(m, o, p) ==
    [m EXCEPT !.vec[o] = [alive |-> TRUE, buffer |-> Buf(m, p),
                          capacity |-> Size(m, p), size |-> Size(m, p)]]

\* Vector(const Vector& other)
CopyCtor(m, o, p) ==
    LET m1 == Allocate(m, Size(m, p)) IN
    IF m1.exc THEN m1
    ELSE LET m2 == UninitializedCopyN(m1, Buf(m, p), 0, Size(m, p),
                                      m1.nd.buffer, 0) IN
         IF m2.exc THEN DropLocal(m2)
         ELSE [m2 EXCEPT !.vec[o] = [alive |-> TRUE, buffer |-> m2.nd.buffer,
                                     capacity |-> m2.nd.capacity,
                                     size |-> Size(m, p)],
                         !.nd = NullMemory]

\* Swap(other): data_.Swap(other.data_); std::swap(size_, other.size_)
Swap(m, o, p) ==
    IF o = p THEN m
    ELSE [m EXCEPT !.vec[o] = m.vec[p], !.vec[p] = m.vec[o]]

\* Vector(Vector&& other): the new object starts empty and swaps
MoveCtor(m, o, p) ==
    LET m1 == DefaultCtor(m, o) IN
    [m1 EXCEPT !.vec[o] = m1.vec[p], !.vec[p] = m1.vec[o]]

\* a move assignment that clears the target before it swaps
MoveAssignmentClearsTarget(m, o, p) ==
    IF o = p THEN m
    ELSE LET m1 == SetSize(DestroyN(m, Buf(m, o), 0, Size(m, o)), o, 0) IN
         [m1 EXCEPT !.vec[o] = m1.vec[p], !.vec[p] = m1.vec[o]]

\* a move assignment that hands the block over and leaves the source empty
MoveAssignmentEmptiesSource(m, o, p) ==
    IF o = p THEN m
    ELSE LET m1 == DestroyN(m, Buf(m, o), 0, Size(m, o)) IN
         [Deallocate(m1, Buf(m, o)) EXCEPT !.vec[o] = m.vec[p],
                                           !.vec[p] = EmptyVector]

\* operator=(Vector&& rhs)
MoveAssignment(m, o, p) ==
    IF o = p THEN m
    ELSE [m EXCEPT !.vec[o] = m.vec[p], !.vec[p] = m.vec[o]]

\* ~Vector(): DestroyN(data_.GetAddress(), size_), then ~RawMemory
Dtor(m, o) ==
    LET m1 == DestroyN(m, Buf(m, o), 0, Size(m, o)) IN
    [Deallocate(m1, Buf(m, o)) EXCEPT !.vec[o] = NoVector]

\* the first loop of operator=(const Vector&): data_[i] = other.data_[i]
RECURSIVE AssignPrefix(_, _, _, _, _)
AssignPrefix(m, o, p, n, i) ==
    IF i = n THEN m
    ELSE LET m1 == AssignTo(NoteRead(m, Buf(m, p), i), Buf(m, o), i,
                            ValAt(m, Buf(m, p), i)) IN
         IF m1.exc THEN m1 ELSE AssignPrefix(m1, o, p, n, i + 1)

\* the second loop: new (data_ + i) T(other.data_[i]), with nothing undone
\* when a copy throws
RECURSIVE ConstructRest(_, _, _, _, _)
ConstructRest(m, o, p, n, i) ==
    IF i >= n THEN m
    ELSE LET m1 == CopyConstruct(m, Buf(m, o), i, Buf(m, p), i) IN
         IF m1.exc THEN m1 ELSE ConstructRest(m1, o, p, n, i + 1)

\* a copy assignment that leaves the surplus elements of the target alive
CopyAssignmentKeepsSurplus(m, o, p) ==
    IF o = p THEN m
    ELSE IF Size(m, p) > Cap(m, o)
    THEN LET m1 == Allocate(m, Size(m, p)) IN
         IF m1.exc THEN m1
         ELSE LET m2 == UninitializedCopyN(m1, Buf(m, p), 0, Size(m, p),
                                           m1.nd.buffer, 0) IN
              IF m2.exc THEN DropLocal(m2)
              ELSE LET m3 == SetSize(SwapWithLocal(m2, o), o, Size(m, p)) IN
                   DropLocal(DestroyN(m3, m3.nd.buffer, 0, Size(m, o)))
    ELSE LET k == Min(Size(m, o), Size(m, p))
             m1 == AssignPrefix(m, o, p, k, 0) IN
         IF m1.exc THEN m1
         ELSE LET m2 == ConstructRest(m1, o, p, Size(m, p), k) IN
              IF m2.exc THEN m2 ELSE SetSize(m2, o, Size(m, p))

\* operator=(const Vector& rhs)
CopyAssignment(m, o, p) ==
    IF o = p THEN m
    ELSE IF Size(m, p) > Cap(m, o)
    THEN \* Vector<T> tmp(other); Swap(tmp); ~tmp
         LET m1 == Allocate(m, Size(m, p)) IN
         IF m1.exc THEN m1
         ELSE LET m2 == UninitializedCopyN(m1, Buf(m, p), 0, Size(m, p),
                                           m1.nd.buffer, 0) IN
              IF m2.exc THEN DropLocal(m2)
              ELSE LET m3 == SetSize(SwapWithLocal(m2, o), o, Size(m, p)) IN
                   DropLocal(DestroyN(m3, m3.nd.buffer, 0, Size(m, o)))
    ELSE LET k == Min(Size(m, o), Size(m, p))
             m1 == AssignPrefix(m, o, p, k, 0) IN
         IF m1.exc THEN m1
         ELSE LET m2 == ConstructRest(m1, o, p, Size(m, p), k) IN
              IF m2.exc THEN m2
              ELSE LET i == Max(k, Size(m, p))
                       m3 == IF i < Size(m, o)
                             THEN DestroyN(m2, Buf(m, o), i, Size(m, o) - i)
                             ELSE m2
                   IN SetSize(m3, o, Size(m, p))

\* ----------------------------------------------------------------- calls
\* the record of a call; ret is <<buffer, index>> of the iterator returned
Call(op, o, p, arg, v) ==
    [op |-> op, obj |-> o, other |-> p, arg |-> arg, val |-> v,
     res |-> "ok", ret |-> <<>>, ub |-> {}]

NoCall == Call("none", "a", "a", 0, 0)

\* The invariant of the class (vector.h:358-359 and every use of size_): the
\* block holds capacity_ slots, size_ <= capacity_, the slots below size_
\* hold live objects and the others none
SlotsOf(h, x) == IF x.buffer = Null THEN <<>> ELSE h[x.buffer]

WellFormed(h, x) ==
    x.alive =>
        /\ x.size <= x.capacity
        /\ Len(SlotsOf(h, x)) = x.capacity
        /\ \A i \in 1..Len(SlotsOf(h, x)) : SlotsOf(h, x)[i].live <=> i <= x.size

\* Every member function takes a well-formed object for granted, and once a
\* call has run into undefined behaviour nothing the program does is defined
\* any more: the state such a call leaves is the last one the model describes
Running ==
    /\ last.res # "crash"
    /\ last.ub = {}
    /\ \A o \in Objs : WellFormed(heap, vec[o])

Usable(o) == Running /\ vec[o].alive
Unborn(o) == Running /\ ~vec[o].alive

\* The calls of the scenario: PushBack(1), PushBack(2), PushBack(3),
\* Insert(begin() + 1, 99), Erase(begin()), as <<operation, index, value>>
ScenarioSteps ==
    << <<"PushBack", 0, 1>>, <<"PushBack", 0, 2>>, <<"PushBack", 0, 3>>,
       <<"Insert", 1, 99>>, <<"Erase", 0, 0>> >>

\* script after a call: Vector() starts the scenario, the call that comes
\* next in it and returns advances it, any other call leaves it
ScriptAfter(call) ==
    IF call.op = "Vector" THEN 0
    ELSE IF /\ script \in 0..(Len(ScenarioSteps) - 1)
            /\ call.res = "ok"
            /\ <<call.op, call.arg, call.val>> = ScenarioSteps[script + 1]
    THEN script + 1
    ELSE -1

\* What an assignment into a slot whose object was destroyed leaves there is
\* not defined when ~T() is not trivial (a std::string assigned to after its
\* destructor keeps its characters in the buffer the destructor released):
\* the slots without an object hold the value written, or no value at all
Forgotten(h) ==
    [b \in BlockIds |->
        IF h[b] = <<>> THEN <<>>
        ELSE [i \in 1..Len(h[b]) |-> IF h[b][i].live THEN h[b][i] ELSE RawSlot]]

\* The call ends: thr > 0 names the step that threw; fault says that an
\* assert of RawMemory failed and stopped the process (a build with NDEBUG
\* goes on instead).  Of a call that threw, the record keeps the operation.
Finish(m, thr, fault, call, ret) ==
    /\ thr > 0 => m.exc
    /\ fault => m.stop # <<>>
    /\ \E kept \in BOOLEAN :
          /\ ~kept => ~fault /\ ~T.trivial /\ "assign_dead" \in m.ub
          /\ heap' = IF fault THEN m.stop[1]
                     ELSE IF kept THEN m.heap ELSE Forgotten(m.heap)
    /\ vec' = IF fault THEN m.stop[2] ELSE m.vec
    /\ T' = T
    /\ last' = [call EXCEPT !.res = IF fault THEN "crash"
                                    ELSE IF m.exc THEN "throw" ELSE "ok",
                            !.arg = IF m.exc THEN 0 ELSE @,
                            !.val = IF m.exc THEN 0 ELSE @,
                            !.ret = IF fault \/ m.exc THEN <<>> ELSE ret,
                            !.ub = m.ub]
    /\ script' = ScriptAfter(last')
    /\ raw' = raw

\* data_.GetAddress() + pos_idx, the iterator Insert, Emplace and Erase return
IterAt(m, o, pos) == <<Buf(m, o), pos>>

\* the steps of one call that can throw are at most the allocation, the new
\* element or temporary, and one step per element
Throwers(n) == 0..(n + 2)

CallDefaultCtor(o) ==
    /\ Unborn(o)
    /\ Finish(DefaultCtor(Start(0), o), 0, FALSE, Call("Vector", o, o, 0, 0), <<>>)

CallSizeCtor(o, lim) ==
    \E n \in 0..lim, thr \in Throwers(lim) :
        /\ Unborn(o)
        /\ Finish(SizeCtor(Start(thr), o, n), thr, FALSE,
                  Call("VectorN", o, o, n, 0), <<>>)

CallCopyCtor(o, p) ==
    \E thr \in Throwers(vec[p].size) :
        /\ Unborn(o) /\ Usable(p) /\ T.copyable
        /\ Finish(CopyCtor(Start(thr), o, p), thr, FALSE,
                  Call("VectorCopy", o, p, 0, 0), <<>>)

CallMoveCtor(o, p) ==
    /\ Unborn(o) /\ Usable(p)
    /\ Finish(MoveCtor(Start(0), o, p), 0, FALSE, Call("VectorMove", o, p, 0, 0), <<>>)

CallCopyAssignment(o, p) ==
    \E thr \in Throwers(vec[p].size) :
        /\ Usable(o) /\ Usable(p) /\ T.copyable
        /\ Finish(CopyAssignment(Start(thr), o, p), thr, FALSE,
                  Call("CopyAssignment", o, p, 0, 0), <<>>)

CallMoveAssignment(o, p) ==
    /\ Usable(o) /\ Usable(p)
    /\ Finish(MoveAssignment(Start(0), o, p), 0, FALSE,
              Call("MoveAssignment", o, p, 0, 0), <<>>)

CallSwap(o, p) ==
    /\ Usable(o) /\ Usable(p)
    /\ Finish(Swap(Start(0), o, p), 0, FALSE, Call("Swap", o, p, 0, 0), <<>>)

CallDtor(o) ==
    /\ Usable(o)
    /\ Finish(Dtor(Start(0), o), 0, FALSE, Call("Dtor", o, o, 0, 0), <<>>)

CallReserve(o, lim) ==
    \E n \in 0..lim, thr \in Throwers(vec[o].size) :
        /\ Usable(o)
        /\ Finish(Reserve(Start(thr), o, n), thr, FALSE,
                  Call("Reserve", o, o, n, 0), <<>>)

CallResize(o, lim) ==
    \E n \in 0..lim, thr \in Throwers(lim) :
        /\ Usable(o)
        /\ Finish(Resize(Start(thr), o, n), thr, FALSE,
                  Call("Resize", o, o, n, 0), <<>>)

CallPushBack(o, V, lim) ==
    \E v \in V, how \in {"copy", "move"}, thr \in Throwers(vec[o].size) :
        /\ Usable(o) /\ vec[o].size < lim
        /\ how = "copy" => T.copyable
        /\ Finish(EmplaceBack(Start(thr), o, v, how), thr, FALSE,
                  Call("PushBack", o, o, 0, v), <<>>)

CallEmplaceBack(o, V, lim) ==
    \E v \in V, thr \in Throwers(vec[o].size) :
        /\ Usable(o) /\ vec[o].size < lim
        /\ LET m == EmplaceBack(Start(thr), o, v, "emplace") IN
           Finish(m, thr, FALSE, Call("EmplaceBack", o, o, 0, v),
                  IterAt(m, o, Size(m, o) - 1))

CallPopBack(o) ==
    /\ Usable(o) /\ vec[o].size > 0
    /\ Finish(PopBack(Start(0), o), 0, FALSE, Call("PopBack", o, o, 0, 0), <<>>)

CallInsert(o, V, lim) ==
    \E pos \in 0..vec[o].size, v \in V, how \in {"copy", "move"},
       thr \in Throwers(vec[o].size), fault \in BOOLEAN :
        /\ Usable(o) /\ vec[o].size < lim
        /\ how = "copy" => T.copyable
        /\ LET m == Insert(Start(thr), o, pos, v, how) IN
           Finish(m, thr, fault, Call("Insert", o, o, pos, v), IterAt(m, o, pos))

CallEmplace(o, V, lim) ==
    \E pos \in 0..vec[o].size, v \in V, thr \in Throwers(vec[o].size) :
        /\ Usable(o) /\ vec[o].size < lim
        /\ LET m == Emplace(Start(thr), o, pos, v) IN
           Finish(m, thr, FALSE, Call("Emplace", o, o, pos, v), IterAt(m, o, pos))

CallErase(o) ==
    \E pos \in 0..(vec[o].size - 1), thr \in Throwers(vec[o].size) :
        /\ Usable(o)
        /\ LET m == Erase(Start(thr), o, pos) IN
           Finish(m, thr, FALSE, Call("Erase", o, o, pos, 0), IterAt(m, o, pos))

\* --------------------------------------------------------- specification
\* nothing constructed yet
Blank ==
    /\ heap = [b \in BlockIds |-> <<>>]
    /\ vec = [o \in Objs |-> NoVector]
    /\ raw = [r \in RawObjs |-> NoRaw]
    /\ last = NoCall
    /\ script = -1

\* One container, of any of the element types, under every call
Init == T \in ElemTypes /\ Blank

Next ==
    \/ CallDefaultCtor("a")
    \/ CallSizeCtor("a", MaxSize)
    \/ CallDtor("a")
    \/ CallReserve("a", MaxSize)
    \/ CallResize("a", MaxSize)
    \/ CallPushBack("a", Values, MaxSize)
    \/ CallEmplaceBack("a", Values, MaxSize)
    \/ CallPopBack("a")
    \/ CallInsert("a", Values, MaxSize)
    \/ CallEmplace("a", Values, MaxSize)
    \/ CallErase("a")

Spec == Init /\ [][Next]_vars

\* Two containers of strings: built, appended to, copied, moved, assigned
PairInit == T = StringLike /\ Blank

PairNext ==
    \/ \E o \in Objs : CallDefaultCtor(o)
    \/ \E o \in Objs : CallDtor(o)
    \/ \E o \in Objs : CallPushBack(o, Values, PairMaxSize)
    \/ \E o, p \in Objs : o # p /\ CallCopyCtor(o, p)
    \/ \E o, p \in Objs : o # p /\ CallMoveCtor(o, p)
    \/ \E o, p \in Objs : CallCopyAssignment(o, p)
    \/ \E o, p \in Objs : CallMoveAssignment(o, p)

SpecPair == PairInit /\ [][PairNext]_vars

\* One default-constructed container, of any element type, and appends only
AppendInit ==
    /\ T \in ElemTypes
    /\ heap = [b \in BlockIds |-> <<>>]
    /\ vec = [o \in Objs |-> IF o = "a" THEN EmptyVector ELSE NoVector]
    /\ raw = [r \in RawObjs |-> NoRaw]
    /\ last = Call("Vector", "a", "a", 0, 0)
    /\ script = 0

AppendNext ==
    \/ CallPushBack("a", Values, AppendMaxSize)
    \/ CallEmplaceBack("a", Values, AppendMaxSize)

SpecAppend == AppendInit /\ [][AppendNext]_vars

\* One container of int, under the calls the scenario is made of
ScenarioInit == T = IntLike /\ Blank

ScenarioNext ==
    \/ CallDefaultCtor("a")
    \/ CallDtor("a")
    \/ CallPushBack("a", ScenarioValues, ScenarioMaxSize)
    \/ CallInsert("a", ScenarioValues, ScenarioMaxSize)
    \/ CallErase("a")

SpecScenario == ScenarioInit /\ [][ScenarioNext]_vars

\* Calls outside the preconditions: operator[] with any index up to the
\* capacity, PopBack on an empty container, Erase at end() or beyond, Insert
\* and Emplace beyond end() of a container with spare capacity
CallAt(o) ==
    \E index \in 0..vec[o].capacity, fault \in BOOLEAN :
        /\ Usable(o)
        /\ LET m == At(Start(0), o, index) IN
           Finish(m, 0, fault, Call("At", o, o, index, 0), IterAt(m, o, index))

CallPopBackEmpty(o) ==
    /\ Usable(o) /\ vec[o].size = 0
    /\ Finish(PopBack(Start(0), o), 0, FALSE, Call("PopBack", o, o, 0, 0), <<>>)

CallEraseOutside(o) ==
    \E pos \in vec[o].size..vec[o].capacity :
        /\ Usable(o)
        /\ LET m == Erase(Start(0), o, pos) IN
           Finish(m, 0, FALSE, Call("Erase", o, o, pos, 0), IterAt(m, o, pos))

CallInsertOutside(o, V) ==
    \E pos \in (vec[o].size + 1)..vec[o].capacity, v \in V,
       how \in {"copy", "move"}, thr \in Throwers(vec[o].size),
       fault \in BOOLEAN :
        /\ Usable(o) /\ vec[o].size < vec[o].capacity
        /\ how = "copy" => T.copyable
        /\ LET m == Insert(Start(thr), o, pos, v, how) IN
           Finish(m, thr, fault, Call("Insert", o, o, pos, v), IterAt(m, o, pos))

CallEmplaceOutside(o, V) ==
    \E pos \in (vec[o].size + 1)..vec[o].capacity, v \in V,
       thr \in Throwers(vec[o].size), fault \in BOOLEAN :
        /\ Usable(o) /\ vec[o].size < vec[o].capacity
        /\ LET m == Emplace(Start(thr), o, pos, v) IN
           Finish(m, thr, fault, Call("Emplace", o, o, pos, v), IterAt(m, o, pos))

\* One container of int or of strings, built by Vector(), Reserve, PushBack
\* and PopBack, and called outside the preconditions
MisuseInit == T \in {IntLike, StringLike} /\ Blank

MisuseNext ==
    \/ CallDefaultCtor("a")
    \/ CallReserve("a", MisuseMaxSize)
    \/ CallPushBack("a", Values, MisuseMaxSize)
    \/ CallPopBack("a")
    \/ CallAt("a")
    \/ CallPopBackEmpty("a")
    \/ CallEraseOutside("a")
    \/ CallInsertOutside("a", Values)
    \/ CallEmplaceOutside("a", Values)

SpecMisuse == MisuseInit /\ [][MisuseNext]_vars

\* Appends whose argument is an element of the container itself; the record
\* keeps the index of the element and the value it had when the call began
CallPushBackElement(o, lim) ==
    \E i \in 0..(vec[o].size - 1), how \in {"copy", "move"},
       thr \in Throwers(vec[o].size) :
        /\ Usable(o) /\ vec[o].size < lim
        /\ how = "copy" => T.copyable
        /\ Finish(EmplaceBackElement(Start(thr), o, i, how), thr, FALSE,
                  Call(IF how = "copy" THEN "PushBack(v[i])"
                                       ELSE "PushBack(move(v[i]))",
                       o, o, i, ValAt(Start(0), vec[o].buffer, i)), <<>>)

CallEmplaceBackElement(o, lim) ==
    \E i \in 0..(vec[o].size - 1), thr \in Throwers(vec[o].size) :
        /\ Usable(o) /\ vec[o].size < lim /\ T.copyable
        /\ LET m == EmplaceBackElement(Start(thr), o, i, "emplace") IN
           Finish(m, thr, FALSE,
                  Call("EmplaceBack(v[i])", o, o, i,
                       ValAt(Start(0), vec[o].buffer, i)),
                  IterAt(m, o, Size(m, o) - 1))

\* One container, of any element type, appended values and its own elements
AliasInit == T \in ElemTypes /\ Blank

AliasNext ==
    \/ CallDefaultCtor("a")
    \/ CallReserve("a", AliasMaxSize)
    \/ CallPushBack("a", Values, AliasMaxSize)
    \/ CallEmplaceBack("a", Values, AliasMaxSize)
    \/ CallPushBackElement("a", AliasMaxSize)
    \/ CallEmplaceBackElement("a", AliasMaxSize)

SpecAlias == AliasInit /\ [][AliasNext]_vars

\* RawMemory objects on their own
FinishRaw(m, thr, call) ==
    /\ thr > 0 => m.exc
    /\ heap' = m.heap
    /\ raw' = m.raw
    /\ last' = [call EXCEPT !.res = IF m.exc THEN "throw" ELSE "ok",
                            !.arg = IF m.exc THEN 0 ELSE @,
                            !.ub = m.ub]
    /\ UNCHANGED <<T, vec, script>>

CallRawCtor(r) ==
    \E n \in 0..RawMaxCapacity, thr \in 0..1 :
        /\ Running /\ ~raw[r].alive
        /\ n = 0 \/ FreeIds(heap) # {}
        /\ FinishRaw(RawCtor(Start(thr), r, n), thr, Call("RawMemory", r, r, n, 0))

CallRawMoveCtor(r, s) ==
    /\ Running /\ ~raw[r].alive /\ raw[s].alive
    /\ FinishRaw(RawMoveCtor(Start(0), r, s), 0, Call("RawMemoryMove", r, s, 0, 0))

CallRawMoveAssign(r, s) ==
    /\ Running /\ raw[r].alive /\ raw[s].alive
    /\ FinishRaw(RawMoveAssign(Start(0), r, s), 0, Call("RawMoveAssign", r, s, 0, 0))

CallRawSwap(r, s) ==
    /\ Running /\ raw[r].alive /\ raw[s].alive
    /\ FinishRaw(RawSwap(Start(0), r, s), 0, Call("RawSwap", r, s, 0, 0))

CallRawDtor(r) ==
    /\ Running /\ raw[r].alive
    /\ FinishRaw(RawDtor(Start(0), r), 0, Call("RawDtor", r, r, 0, 0))

RawInit == T = IntLike /\ Blank

RawNext ==
    \/ \E r \in RawObjs : CallRawCtor(r)
    \/ \E r, s \in RawObjs : CallRawMoveCtor(r, s)
    \/ \E r, s \in RawObjs : CallRawMoveAssign(r, s)
    \/ \E r, s \in RawObjs : CallRawSwap(r, s)
    \/ \E r \in RawObjs : CallRawDtor(r)

SpecRaw == RawInit /\ [][RawNext]_vars

\* ------------------------------------------------------------ observations
\* the element values of object o, in order
ElementsOf(h, x) == [i \in 1..x.size |-> SlotsOf(h, x)[i].val]
Elements(o) == ElementsOf(heap, vec[o])
\* ... after the step
ElementsAfter(o) == ElementsOf(heap', vec'[o])

InsertAt(s, i, v) == SubSeq(s, 1, i) \o <<v>> \o SubSeq(s, i + 1, Len(s))
RemoveAt(s, i) == SubSeq(s, 1, i) \o SubSeq(s, i + 2, Len(s))

AtCapacity(o) == vec[o].size = vec[o].capacity

\* -------------------------------------------------------------------- C1
\* C1: in every state the public operations reach (a call that threw
\* included), size <= capacity, every slot below size holds a live element
\* and no slot in [size, capacity) does.
C1_ClassInvariant ==
    last.res # "crash" => \A o \in Objs : WellFormed(heap, vec[o])

\* -------------------------------------------------------------------- C2
\* a call on a growth path: Reserve beyond the capacity (the only Reserve
\* that can throw), or an append or insertion at capacity
GrowthThrow ==
    /\ last'.res = "throw"
    /\ \/ last'.op = "Reserve"
       \/ last'.op \in {"PushBack", "EmplaceBack", "Insert", "Emplace"}
          /\ AtCapacity(last'.obj)

\* C2 as claimed: on every growth path and for every element type, when the
\* new element's or a relocated element's constructor throws, the container
\* has the size, the capacity and the element values it had before the call.
C2_StrongGuaranteeEveryType ==
    [][GrowthThrow =>
          /\ vec'[last'.obj] = vec[last'.obj]
          /\ ElementsAfter(last'.obj) = Elements(last'.obj)]_vars

\* C2 as amended: size, capacity and block are as before the call for every
\* element type; the element values are as before when T is relocated by
\* copy or its move constructor is noexcept, and otherwise (a move-only T
\* whose move constructor throws) each element is as before or moved from.
C2_StrongGuaranteeByCopy ==
    [][GrowthThrow =>
          /\ vec'[last'.obj] = vec[last'.obj]
          /\ IF T.copyable \/ T.nothrowMove
             THEN ElementsAfter(last'.obj) = Elements(last'.obj)
             ELSE \A i \in 1..vec[last'.obj].size :
                      ElementsAfter(last'.obj)[i] \in {Elements(last'.obj)[i], MovedFrom}]_vars

\* an insertion at capacity into two elements of a T relocated by copy threw
C2_Witness ==
    /\ T = ThrowingMove
    /\ last.op = "Insert" /\ last.res = "throw"
    /\ vec["a"].size = 2 /\ vec["a"].capacity = 2

\* -------------------------------------------------------------------- C3
\* C3: Insert(begin+i, V) and Emplace(begin+i, V) that do not throw, for
\* every 0 <= i <= N, at capacity or with spare capacity, yield size N+1,
\* V at i with the other elements in order around it, and return position i.
C3_InsertPlacesValue ==
    [][last'.op \in {"Insert", "Emplace"} /\ last'.res # "throw" =>
          /\ last'.res = "ok"
          /\ vec'[last'.obj].size = vec[last'.obj].size + 1
          /\ ElementsAfter(last'.obj) =
                 InsertAt(Elements(last'.obj), last'.arg, last'.val)
          /\ last'.ret = <<vec'[last'.obj].buffer, last'.arg>>]_vars

\* -------------------------------------------------------------------- C4
\* C4: Erase(begin+i) on N >= 1 elements, 0 <= i < N, yields size N-1 and
\* the same capacity, leaves elements 0..i-1, makes elements i..N-2 the
\* former i+1..N-1, and returns position i.
C4_EraseRemovesValue ==
    [][last'.op = "Erase" /\ last'.res = "ok" =>
          /\ vec'[last'.obj].size = vec[last'.obj].size - 1
          /\ vec'[last'.obj].capacity = vec[last'.obj].capacity
          /\ ElementsAfter(last'.obj) = RemoveAt(Elements(last'.obj), last'.arg)
          /\ last'.ret = <<vec'[last'.obj].buffer, last'.arg>>]_vars

\* -------------------------------------------------------------------- C8
\* C8: right after a Resize(n) that returned, a second Resize(n) is a no-op:
\* no element constructed or destroyed, no block allocated, and size,
\* capacity and the element values as they were.
C8_SecondResizeIsNoOp ==
    last.op = "Resize" /\ last.res = "ok" =>
        \A thr \in Throwers(MaxSize) :
            LET m == Resize(Start(thr), last.obj, last.arg) IN
            /\ ~m.exc
            /\ m.cnt = NoCount
            /\ m.heap = heap
            /\ m.vec = vec

\* a Resize that grew the container returned
C8_Witness ==
    /\ last.op = "Resize" /\ last.res = "ok" /\ last.arg = 3
    /\ vec["a"].size = 3
    /\ Elements("a") = <<2, DefaultValue, DefaultValue>>

\* -------------------------------------------------------------------- C5
\* the least power of two that is at least n (0 for n = 0)
LeastPowerOfTwo(n) ==
    IF n = 0 THEN 0
    ELSE CHOOSE c \in {2 ^ k : k \in 0..n} :
             c >= n /\ \A d \in {2 ^ k : k \in 0..n} : d >= n => c <= d

\* C5: from a default-constructed container and under appends only, the
\* append that returns as the N-th leaves size N and as capacity the least
\* power of two >= N (1, 2, 4, 8, ...), and no append, thrown or not, lowers
\* the capacity.
C5_CapacityDoubles ==
    [][/\ vec'["a"].capacity >= vec["a"].capacity
       /\ last'.res = "ok" =>
              /\ vec'["a"].size = vec["a"].size + 1
              /\ vec'["a"].capacity = LeastPowerOfTwo(vec'["a"].size)]_vars

\* the fifth append has returned and the capacity is 8
C5_Witness ==
    /\ last.op \in {"PushBack", "EmplaceBack"} /\ last.res = "ok"
    /\ vec["a"].size = 5 /\ vec["a"].capacity = 8

\* -------------------------------------------------------------------- C6
\* C6: a copy construction from a container of N elements gives size N,
\* capacity exactly N, the source's values in order, in a block of its own
\* (no block for N = 0); and a call that changes one container (an append,
\* a copy assignment to it, its construction or destruction) leaves the size,
\* capacity, block and values of the other as they were.
C6_CopyIsIndependent ==
    [][LET o == last'.obj
           p == last'.other
       IN /\ last'.op = "VectorCopy" /\ last'.res = "ok" =>
                /\ vec'[o].alive
                /\ vec'[o].size = vec[p].size
                /\ vec'[o].capacity = vec[p].size
                /\ ElementsAfter(o) = Elements(p)
                /\ vec'[o].buffer = Null \/ vec'[o].buffer # vec'[p].buffer
          /\ last'.op \in {"Vector", "VectorCopy", "CopyAssignment",
                            "PushBack", "Dtor"} =>
                \A q \in Objs \ {o} :
                    vec'[q] = vec[q] /\ ElementsAfter(q) = Elements(q)]_vars

\* b has just been copy-constructed from a, which holds 1, 2
C6_Witness ==
    /\ last.op = "VectorCopy" /\ last.res = "ok"
    /\ last.obj = "b" /\ last.other = "a"
    /\ Elements("a") = <<1, 2>> /\ Elements("b") = <<1, 2>>
    /\ vec["b"].capacity = 2 /\ vec["b"].buffer # vec["a"].buffer

\* -------------------------------------------------------------------- C7
\* C7 as claimed: a move construction, or a move assignment to another
\* container in any state, leaves the destination with the source's former
\* elements in order and the source with size 0.
C7_MoveLeavesSourceEmpty ==
    [][LET o == last'.obj
           p == last'.other
       IN last'.op \in {"VectorMove", "MoveAssignment"} /\ o # p =>
              /\ ElementsAfter(o) = Elements(p)
              /\ vec'[p].size = 0]_vars

\* C7 as the code has it: a move construction leaves the destination with
\* the source's former elements and the source empty, without a block; a
\* move assignment to another container leaves the destination with the
\* source's former elements and the source with the destination's former
\* elements, capacity and block; a move assignment to itself changes nothing.
C7_MoveSwapsWithSource ==
    [][LET o == last'.obj
           p == last'.other
       IN /\ last'.op = "VectorMove" =>
                /\ ElementsAfter(o) = Elements(p)
                /\ vec'[o] = vec[p]
                /\ vec'[p] = EmptyVector
          /\ last'.op = "MoveAssignment" /\ o # p =>
                /\ ElementsAfter(o) = Elements(p)
                /\ ElementsAfter(p) = Elements(o)
                /\ vec'[o] = vec[p]
                /\ vec'[p] = vec[o]
                /\ heap' = heap
          /\ last'.op = "MoveAssignment" /\ o = p =>
                vec' = vec /\ heap' = heap]_vars

\* a, which held 2, has been move-assigned from b, which held 1, 2
C7_Witness ==
    /\ last.op = "MoveAssignment" /\ last.obj = "a" /\ last.other = "b"
    /\ Elements("a") = <<1, 2>> /\ Elements("b") = <<2>>

\* -------------------------------------------------------------------- C9
\* C9: after Vector(), PushBack(1), PushBack(2), PushBack(3) the container
\* has size 3, capacity 4 and holds 1, 2, 3; after Insert(begin() + 1, 99)
\* then, it has size 4 and holds 1, 99, 2, 3; after Erase(begin()) then, it
\* has size 3 and holds 99, 2, 3.
C9_Scenario ==
    /\ script = 3 =>
          vec["a"].size = 3 /\ vec["a"].capacity = 4 /\ Elements("a") = <<1, 2, 3>>
    /\ script = 4 =>
          vec["a"].size = 4 /\ Elements("a") = <<1, 99, 2, 3>>
    /\ script = 5 =>
          vec["a"].size = 3 /\ Elements("a") = <<99, 2, 3>>

\* the whole scenario has run
C9_Witness == script = 5 /\ last.op = "Erase" /\ last.res = "ok"

\* ------------------------------------------------------------------- C10
\* the RawMemory objects that hold block b
Owners(b) == {r \in RawObjs : raw[r].alive /\ raw[r].buffer = b}

\* C10: under construction with a capacity, move construction, move
\* assignment, Swap and destruction of RawMemory objects, every block that
\* is allocated and not released has exactly one owner, no object holds a
\* released block, and no block is released twice.
C10_EveryBlockHasOneOwner ==
    /\ \A b \in BlockIds : heap[b] # <<>> => Cardinality(Owners(b)) = 1
    /\ \A r \in RawObjs : raw[r].alive /\ raw[r].buffer # Null =>
                               heap[raw[r].buffer] # <<>>
    /\ "double_free" \notin last.ub

\* ------------------------------------------------------------------- C11
\* C11: a Reserve(n) that returns leaves the size and the element values, in
\* order, as they were; with n <= capacity it changes nothing and allocates
\* nothing, with n > capacity the capacity becomes exactly n.
C11_ReserveKeepsElements ==
    [][last'.op = "Reserve" /\ last'.res = "ok" =>
          LET o == last'.obj
              n == last'.arg
          IN /\ vec'[o].size = vec[o].size
             /\ ElementsAfter(o) = Elements(o)
             /\ n <= vec[o].capacity =>
                   /\ vec' = vec /\ heap' = heap
                   /\ Reserve(Start(0), o, n).cnt = NoCount
             /\ n > vec[o].capacity => vec'[o].capacity = n]_vars

\* a Reserve(3) on a full container of two elements has returned
C11_Witness ==
    /\ last.op = "Reserve" /\ last.res = "ok" /\ last.arg = 3
    /\ vec["a"].capacity = 3 /\ Elements("a") = <<1, 2>>

\* ------------------------------------------------------------------- C12
\* the asserts of vector.h
Asserts == {"assert_size", "assert_index", "assert_offset"}

\* the call just made was outside its precondition: operator[] with
\* index >= size, PopBack on an empty container, Erase outside [begin, end),
\* Insert or Emplace outside [begin, end]
Misused ==
    LET o == last'.obj IN
    /\ last'.res # "throw"
    /\ \/ last'.op = "At" /\ last'.arg >= vec[o].size
       \/ last'.op = "PopBack" /\ vec[o].size = 0
       \/ last'.op = "Erase" /\ last'.arg >= vec[o].size
       \/ last'.op \in {"Insert", "Emplace"} /\ last'.arg > vec[o].size

\* C12: every call outside its precondition fails an assert, and fails it
\* before anything is modified: where asserts stop the process, size,
\* capacity and every slot are as they were before the call.
C12_MisuseFailsAnAssert ==
    [][Misused =>
          /\ last'.ub \cap Asserts # {}
          /\ last'.res = "crash" => vec' = vec /\ heap' = heap]_vars

\* ------------------------------------------------------------------- C13
\* C13: a PushBack(v) or EmplaceBack(v) that returns leaves size N+1, the
\* former elements in place and, as element N, the value v had when the call
\* began, with spare capacity and at capacity alike, also when v is an
\* element of the container itself.  (An element passed as an rvalue is
\* copied to the back likewise and is itself left as a move leaves it.)
C13_AppendPlacesValue ==
    [][LET o == last'.obj
           e == Elements(o)
       IN /\ last'.op \in {"PushBack", "EmplaceBack",
                            "PushBack(v[i])", "EmplaceBack(v[i])"}
             /\ last'.res = "ok" =>
                /\ vec'[o].size = vec[o].size + 1
                /\ ElementsAfter(o) = Append(e, last'.val)
                /\ last'.op \in {"PushBack(v[i])", "EmplaceBack(v[i])"} =>
                       last'.val = e[last'.arg + 1]
          /\ last'.op = "PushBack(move(v[i]))" /\ last'.res = "ok" =>
                /\ vec'[o].size = vec[o].size + 1
                /\ ElementsAfter(o)[vec'[o].size] = e[last'.arg + 1]
                /\ \A j \in 1..Len(e) :
                      ElementsAfter(o)[j] =
                          IF j = last'.arg + 1 /\ T.moveEmpties
                          THEN MovedFrom ELSE e[j]]_vars

\* a full container holding 2, 1 was appended its own first element
C13_Witness ==
    /\ last.op = "PushBack(v[i])" /\ last.res = "ok" /\ last.arg = 0
    /\ vec["a"].capacity = 4
    /\ Elements("a") = <<2, 1, 2>>

\* ------------------------------------------------------------------- C14
\* C14: a copy assignment a = b that returns, whatever the sizes and
\* capacities and also for a and b the same object, leaves a with b's size
\* and b's values in order, leaves b as it was, leaves the capacity of a as
\* it was when b.size <= a.capacity, and leaves no live element in the slots
\* [b.size, capacity) of a.
C14_CopyAssignmentCopies ==
    [][last'.op = "CopyAssignment" /\ last'.res = "ok" =>
          LET o == last'.obj
              p == last'.other
          IN /\ vec'[o].size = vec[p].size
             /\ ElementsAfter(o) = Elements(p)
             /\ vec'[p] = vec[p] /\ ElementsAfter(p) = Elements(p)
             /\ vec[p].size <= vec[o].capacity =>
                   vec'[o].capacity = vec[o].capacity
             /\ WellFormed(heap', vec'[o])]_vars

\* a, which held two elements, was assigned b, which holds one
C14_Witness ==
    /\ last.op = "CopyAssignment" /\ last.res = "ok"
    /\ last.obj = "a" /\ last.other = "b"
    /\ vec["a"].capacity = 2
    /\ Elements("a") = <<2>> /\ Elements("b") = <<2>>

\* ------------------------------------------------------------------- C15
\* C15: a move assignment a = move(b) between two containers exchanges
\* their blocks, capacities, sizes and elements and does nothing else: no
\* element is constructed, destroyed or assigned, no block allocated or
\* released, no slot written; with a and b the same object nothing changes.
C15_MoveAssignmentOnlySwaps ==
    [][last'.op = "MoveAssignment" =>
          LET o == last'.obj
              p == last'.other
          IN /\ last'.res = "ok"
             /\ MoveAssignment(Start(0), o, p).cnt = NoCount
             /\ heap' = heap
             /\ vec' = IF o = p THEN vec
                       ELSE [vec EXCEPT ![o] = vec[p], ![p] = vec[o]]]_vars

\* b, which held 1, was move-assigned from a, which held 2, 1
C15_Witness ==
    /\ last.op = "MoveAssignment" /\ last.obj = "b" /\ last.other = "a"
    /\ Elements("b") = <<2, 1>> /\ Elements("a") = <<1>>
    /\ vec["b"].capacity = 2 /\ vec["a"].capacity = 1

\* ------------------------------------------------------------------- C16
\* the operations that move the elements to a larger block
GrowthOps == {"Reserve", "PushBack", "EmplaceBack", "Insert", "Emplace"}

\* C16: when a growth commits (a Reserve(n) with n above the capacity, from
\* any state, or the reallocation of PushBack, EmplaceBack, Insert, Emplace)
\* the destructor runs on the slots [0, old size) of the old block, which
\* hold the elements, and on no slot that holds no object.
C16_GrowthDestroysLiveSlotsOnly ==
    [][/\ last'.op \in GrowthOps
       /\ last'.res = "ok"
       /\ vec'[last'.obj].capacity > vec[last'.obj].capacity
       => /\ "destroy_dead" \notin last'.ub
          /\ last'.op = "Reserve" =>
                 Reserve(Start(0), last'.obj, last'.arg).cnt.dtor
                     = vec[last'.obj].size]_vars

\* ------------------------------------------------------------------- C17
\* a call that threw has destroyed every object it constructed, once, and
\* released every block it allocated
Unwound(m) ==
    /\ m.cnt.ctor = m.cnt.dtor
    /\ m.cnt.alloc = m.cnt.free
    /\ m.ub = {}
    /\ \A b \in BlockIds : heap[b] = <<>> => m.heap[b] = <<>>

\* C17: when a growth fails part-way (the allocation, the new element or the
\* relocation of any element throws, in Reserve above the capacity and in
\* PushBack, EmplaceBack, Insert, Emplace at capacity), every element that
\* was constructed in the new block, the new element included, is destroyed
\* exactly once and the new block is released.
C17_FailedGrowthUnwinds ==
    Usable("a") =>
        \A thr \in Throwers(MaxSize) :
            /\ \A n \in (vec["a"].capacity + 1)..(MaxSize + 1) :
                   LET m == Reserve(Start(thr), "a", n) IN m.exc => Unwound(m)
            /\ vec["a"].size = vec["a"].capacity =>
                   \A v \in Values, how \in {"copy", "move", "emplace"} :
                       /\ LET m == EmplaceBack(Start(thr), "a", v, how) IN
                          m.exc => Unwound(m)
                       /\ \A pos \in 0..vec["a"].size :
                              LET m == Insert(Start(thr), "a", pos, v, how) IN
                              m.exc => Unwound(m)

\* two elements relocated by copy, at capacity, and an Insert in the middle
\* that throws after the new element and one more were constructed in the new
\* block
C17_Witness ==
    /\ Usable("a") /\ T = ThrowingMove
    /\ vec["a"].size = 2 /\ vec["a"].capacity = 2
    /\ \E thr \in Throwers(MaxSize) :
           LET m == Insert(Start(thr), "a", 1, 1, "copy") IN
           m.exc /\ m.cnt.ctor = 2 /\ m.cnt.alloc = 1

\* ------------------------------------------------------------------- C18
\* C18: Resize(n) with n above the size that does not throw yields size n,
\* the old elements unchanged, the new ones default-valued, and the capacity
\* max(old capacity, n); with n below the size it destroys the elements
\* [n, old size) and leaves the others and the capacity; when a default
\* construction throws (the Reserve before it did not), the size and the old
\* values are unchanged and the elements constructed so far are destroyed.
C18_ResizeSetsSize ==
    Usable("a") =>
        \A n \in 0..MaxSize, thr \in Throwers(MaxSize) :
            LET m == Resize(Start(thr), "a", n)
                x == m.vec["a"]
                els == ElementsOf(m.heap, x)
                old == vec["a"]
            IN /\ ~m.exc /\ n > old.size =>
                      /\ x.size = n
                      /\ x.capacity = Max(old.capacity, n)
                      /\ SubSeq(els, 1, old.size) = Elements("a")
                      /\ \A i \in (old.size + 1)..n : els[i] = DefaultValue
                      /\ WellFormed(m.heap, x)
               /\ ~m.exc /\ n < old.size =>
                      /\ x = [old EXCEPT !.size = n]
                      /\ els = SubSeq(Elements("a"), 1, n)
                      /\ m.cnt = [NoCount EXCEPT !.dtor = old.size - n]
                      /\ WellFormed(m.heap, x)
               /\ m.exc /\ ~Reserve(Start(thr), "a", n).exc =>
                      /\ x.size = old.size
                      /\ els = Elements("a")
                      /\ WellFormed(m.heap, x)

\* a container holding 2 in a block of one slot was resized to 3: the block
\* of three slots is in place, a default construction threw, and the size is 1
C18_Witness ==
    /\ last.op = "Resize" /\ last.res = "throw"
    /\ vec["a"].size = 1 /\ vec["a"].capacity = 3
    /\ Elements("a") = <<2>>

\* ------------------------------------------------------------------- C19
\* C19: no call within its precondition fails a bounds assert of the
\* storage (operator[]: index < capacity, operator+: offset <= capacity) or
\* of Vector::operator[]; an Insert with spare capacity into an empty
\* container does not index the storage at size - 1.
C19_NoAssertFailsWithinPreconditions ==
    /\ last.ub \cap Asserts = {}
    /\ last.res # "crash"

\* ------------------------------------------------------------------- C20
\* C20: no call reads, moves from or assigns into a slot that holds no
\* object, and every object constructed is one the destructor of its
\* container will destroy: it lies in a slot below the size.
C20_OnlyLiveSlotsAreUsed ==
    /\ last.ub \cap {"read_dead", "assign_dead"} = {}
    /\ \A o \in Objs :
          vec[o].alive =>
              \A i \in 1..Len(SlotsOf(heap, vec[o])) :
                  SlotsOf(heap, vec[o])[i].live => i <= vec[o].size
====
